---- MODULE Spec2Model ----
(***************************************************************************)
(* Model of the drone-simulator raster tools: the spectral index pipeline  *)
(* (backend/app/metrics.py) and the band inspector                         *)
(* (backend/app/band_inspector.py).                                        *)
(*                                                                         *)
(* Arrays are numpy arrays flattened to sequences (every operation of the  *)
(* code is elementwise or a reduction, so the 2-D shape is the length).    *)
(* Arrays live in a heap and are named by references, because the code     *)
(* distinguishes a copy (astype, copy) from an update in place             *)
(* (arr[mask] = ...).                                                      *)
(*                                                                         *)
(* A float is a record: finite values are exact rationals n/d, and the     *)
(* IEEE specials nan, +inf, -inf are kept apart, since the code's          *)
(* np.isfinite, nan propagation and x/0 depend on them.  Rounding of       *)
(* float32 quotients is not modelled; raw sensor values are 16-bit         *)
(* unsigned integers, which float32 holds exactly.                         *)
(***************************************************************************)
EXTENDS Integers, Sequences, FiniteSets, TLC

VARIABLES prog, pc, heap, loc, file, handle, out, written, status

vars == <<prog, pc, heap, loc, file, handle, out, written, status>>

----------------------------------------------------------------------------
(* Bounds of the model *)

\* pixels per band of a raster file
MaxPix == 2
\* elements of an array handed directly to mask, stretch or the reporter
MaxLen == 3
\* bands in a raster file
MaxBands == 5

(* Program constants *)

\* default saturation_value of mask_saturated_pixels
SaturationValue == 65535

----------------------------------------------------------------------------
(* Floats *)

Abs(i) == IF i < 0 THEN -i ELSE i

RECURSIVE GCD(_, _)
GCD(a, b) == IF b = 0 THEN a ELSE GCD(b, a % b)

NaN == [k |-> "nan", n |-> 0, d |-> 1]
PInf == [k |-> "pinf", n |-> 0, d |-> 1]
NInf == [k |-> "ninf", n |-> 0, d |-> 1]

\* the finite float n/d, in lowest terms with a positive denominator
Fin(n, d) ==
  LET s == IF d < 0 THEN -1 ELSE 1
      g == GCD(Abs(n), Abs(d))
  IN  [k |-> "fin", n |-> (s * n) \div g, d |-> (s * d) \div g]

\* an integer as a float: ndarray.astype('float32') on 16-bit data
AsFloat(i) == Fin(i, 1)

\* np.isfinite and np.isnan on one element
isfinite(x) == x.k = "fin"
isnan(x) == x.k = "nan"

\* -1, 0, 1 for a non-nan float
Sign(x) ==
  CASE x.k = "pinf" -> 1
    [] x.k = "ninf" -> -1
    [] OTHER -> IF x.n > 0 THEN 1 ELSE IF x.n < 0 THEN -1 ELSE 0

Inf(s) == IF s > 0 THEN PInf ELSE NInf

FNeg(x) ==
  CASE x.k = "nan" -> NaN
    [] x.k = "pinf" -> NInf
    [] x.k = "ninf" -> PInf
    [] OTHER -> Fin(-x.n, x.d)

\* IEEE addition: nan propagates, inf + (-inf) is nan
FAdd(x, y) ==
  IF isnan(x) \/ isnan(y) THEN NaN
  ELSE IF isfinite(x) /\ isfinite(y) THEN Fin(x.n * y.d + y.n * x.d, x.d * y.d)
  ELSE IF isfinite(x) THEN y
  ELSE IF isfinite(y) THEN x
  ELSE IF x = y THEN x ELSE NaN

FSub(x, y) == FAdd(x, FNeg(y))

\* IEEE multiplication: 0 * inf is nan
FMul(x, y) ==
  IF isnan(x) \/ isnan(y) THEN NaN
  ELSE IF isfinite(x) /\ isfinite(y) THEN Fin(x.n * y.n, x.d * y.d)
  ELSE IF Sign(x) = 0 \/ Sign(y) = 0 THEN NaN
  ELSE Inf(Sign(x) * Sign(y))

\* IEEE division with the floating-point errors ignored (np.seterr, and
\* numpy's default of warning only): 0/0 and inf/inf are nan, x/0 is an
\* infinity of x's sign, x/inf is 0.  Every zero here is +0: it is a
\* converted unsigned integer, or a sum or difference of such.
FDiv(x, y) ==
  IF isnan(x) \/ isnan(y) THEN NaN
  ELSE IF isfinite(y) /\ y.n = 0
       THEN IF Sign(x) = 0 THEN NaN ELSE Inf(Sign(x))
  ELSE IF isfinite(x) /\ isfinite(y) THEN Fin(x.n * y.d, x.d * y.n)
  ELSE IF isfinite(x) THEN Fin(0, 1)
  ELSE IF isfinite(y) THEN Inf(Sign(x) * Sign(y))
  ELSE NaN

\* x < y and x <= y on floats; every comparison with nan is false
FLt(x, y) ==
  /\ ~isnan(x) /\ ~isnan(y)
  /\ IF isfinite(x) /\ isfinite(y) THEN x.n * y.d < y.n * x.d
     ELSE IF x = y THEN FALSE
     ELSE x.k = "ninf" \/ y.k = "pinf"

FLe(x, y) == ~isnan(x) /\ ~isnan(y) /\ (x = y \/ FLt(x, y))

FGe(x, y) == FLe(y, x)

----------------------------------------------------------------------------
(* Arrays *)

\* elementwise a + b, a - b, a / b on same-shape arrays
ArrAdd(a, b) == [i \in 1..Len(a) |-> FAdd(a[i], b[i])]

ArrSub(a, b) == [i \in 1..Len(a) |-> FSub(a[i], b[i])]

ArrDiv(a, b) == [i \in 1..Len(a) |-> FDiv(a[i], b[i])]

\* arr[mask]: the elements selected by a boolean mask, in order
RECURSIVE Select(_, _)
Select(a, mask) ==
  IF Len(a) = 0 THEN <<>>
  ELSE IF Head(mask) THEN <<Head(a)>> \o Select(Tail(a), Tail(mask))
  ELSE Select(Tail(a), Tail(mask))

\* ndarray.min() and ndarray.max() of a non-empty array without nan
RECURSIVE ArrMin(_)
ArrMin(a) ==
  IF Len(a) = 1 THEN a[1]
  ELSE LET m == ArrMin(Tail(a)) IN IF FLt(a[1], m) THEN a[1] ELSE m

RECURSIVE ArrMax(_)
ArrMax(a) ==
  IF Len(a) = 1 THEN a[1]
  ELSE LET m == ArrMax(Tail(a)) IN IF FLt(m, a[1]) THEN a[1] ELSE m

RECURSIVE ArrSum(_)
ArrSum(a) == IF Len(a) = 0 THEN Fin(0, 1) ELSE FAdd(a[1], ArrSum(Tail(a)))

\* ndarray.mean() of a non-empty array
ArrMean(a) == FDiv(ArrSum(a), AsFloat(Len(a)))

\* ndarray.var(): the square of ndarray.std() (the root is not a rational)
ArrVar(a) ==
  LET m == ArrMean(a)
      sq == [i \in 1..Len(a) |-> FMul(FSub(a[i], m), FSub(a[i], m))]
  IN  FDiv(ArrSum(sq), AsFloat(Len(a)))

\* all arrays of up to MaxLen elements over a set of values
ArraysOver(S) == UNION {[1..n -> S] : n \in 0..MaxLen}

\* all arrays of exactly n elements
ArraysOfLen(S, n) == [1..n -> S]

----------------------------------------------------------------------------
(* Index formulas: metrics.py lines 17-24 *)

\* ndvi with the difference in the denominator too
ndvi_diff_denominator(nir, red) == ArrDiv(ArrSub(nir, red), ArrSub(nir, red))

ndvi(nir, red) == ArrDiv(ArrSub(nir, red), ArrAdd(nir, red))

ndwi(green, nir) == ArrDiv(ArrSub(green, nir), ArrAdd(green, nir))

psri(red, green, blue) == ArrDiv(ArrSub(red, green), blue)

----------------------------------------------------------------------------
(* The heap: a sequence of arrays; a reference is an index into it.        *)
(* An operation that can change the heap returns [heap, ret].              *)

\* a new array object holding the values arr
Alloc(h, arr) == [heap |-> Append(h, arr), ret |-> Len(h) + 1]

\* ndarray.astype('float32'): always a new array (copy=True is the default)
astype_float32(h, array) ==
  Alloc(h, [i \in 1..Len(h[array]) |-> AsFloat(h[array][i])])

\* no copy: the same array object under another name
ndarray_alias(h, array) == [heap |-> h, ret |-> array]

\* ndarray.copy()
ndarray_copy(h, array) == Alloc(h, h[array])

\* mask_saturated_pixels comparing with > instead of >=
mask_saturated_pixels_gt(h, array, saturation_value) ==
  LET c == astype_float32(h, array)
      a == c.heap[c.ret]
  IN  [heap |-> [c.heap EXCEPT ![c.ret] =
                   [i \in 1..Len(a) |->
                      IF FLt(AsFloat(saturation_value), a[i]) THEN NaN
                      ELSE a[i]]],
       ret |-> c.ret]

\* metrics.py lines 26-30.  The parameter array is rebound to the converted
\* copy before the masked assignment.
mask_saturated_pixels(h, array, saturation_value) ==
  LET c == astype_float32(h, array)
      a == c.heap[c.ret]
      m == [i \in 1..Len(a) |-> FGe(a[i], AsFloat(saturation_value))]
  IN  [heap |-> [c.heap EXCEPT ![c.ret] =
                   [i \in 1..Len(a) |-> IF m[i] THEN NaN ELSE a[i]]],
       ret |-> c.ret]

\* stretch without the b == a early return
stretch_unguarded(h, arr) ==
  LET x == h[arr]
      valid == [i \in 1..Len(x) |-> isfinite(x[i])]
  IN  IF ~(\E i \in 1..Len(x) : valid[i])
      THEN [heap |-> h, ret |-> arr]
      ELSE LET a == ArrMin(Select(x, valid))
               b == ArrMax(Select(x, valid))
           IN  [heap |-> [h EXCEPT ![arr] =
                  [i \in 1..Len(x) |->
                     IF valid[i]
                     THEN FDiv(FSub(x[i], a), FSub(b, a))
                     ELSE x[i]]],
                ret |-> arr]

\* metrics.py lines 32-42: the assignment arr[valid] = ... updates the
\* argument's own array, and that same array is what is returned
stretch(h, arr) ==
  LET x == h[arr]
      valid == [i \in 1..Len(x) |-> isfinite(x[i])]
  IN  IF ~(\E i \in 1..Len(x) : valid[i])
      THEN [heap |-> h, ret |-> arr]
      ELSE LET a == ArrMin(Select(x, valid))
               b == ArrMax(Select(x, valid))
           IN  IF b = a
               THEN [heap |-> h, ret |-> arr]
               ELSE [heap |-> [h EXCEPT ![arr] =
                        [i \in 1..Len(x) |->
                           IF valid[i]
                           THEN FDiv(FSub(x[i], a), FSub(b, a))
                           ELSE x[i]]],
                     ret |-> arr]

\* print_statistics selecting with ~np.isnan instead of np.isfinite
print_statistics_notnan(name, array) ==
  LET valid == Select(array, [i \in 1..Len(array) |-> ~isnan(array[i])])
  IN  IF Len(valid) > 0
      THEN [ev |-> "statistics", name |-> name, novalid |-> FALSE,
            min |-> ArrMin(valid), max |-> ArrMax(valid),
            mean |-> ArrMean(valid), count |-> Len(valid),
            pct |-> FMul(FDiv(AsFloat(Len(valid)), AsFloat(Len(array))),
                         AsFloat(100))]
      ELSE [ev |-> "statistics", name |-> name, novalid |-> TRUE]

\* metrics.py lines 167-177: the values print_statistics computes and hands
\* to its f-strings (which render them with 3 and 1 decimals)
print_statistics(name, array) ==
  LET valid == Select(array, [i \in 1..Len(array) |-> isfinite(array[i])])
  IN  IF Len(valid) > 0
      THEN [ev |-> "statistics", name |-> name, novalid |-> FALSE,
            min |-> ArrMin(valid), max |-> ArrMax(valid),
            mean |-> ArrMean(valid), count |-> Len(valid),
            pct |-> FMul(FDiv(AsFloat(Len(valid)), AsFloat(Len(array))),
                         AsFloat(100))]
      ELSE [ev |-> "statistics", name |-> name, novalid |-> TRUE]

\* the non-nan elements of an array in ascending order: the partition
\* np.nanpercentile and np.median work on
RECURSIVE Insert(_, _)
Insert(x, sorted) ==
  IF Len(sorted) = 0 THEN <<x>>
  ELSE IF FLe(x, Head(sorted)) THEN <<x>> \o sorted
  ELSE <<Head(sorted)>> \o Insert(x, Tail(sorted))

RECURSIVE Sorted(_)
Sorted(a) == IF Len(a) = 0 THEN <<>> ELSE Insert(Head(a), Sorted(Tail(a)))

\* np.nanpercentile(a, q), numpy's default linear method: the element at
\* the virtual index (n-1)q/100 of the sorted non-nan values, interpolated
\* between its neighbours (from above when the fraction is >= 1/2); nan
\* when every element is nan
nanpercentile(a, q) ==
  LET v == Sorted(Select(a, [i \in 1..Len(a) |-> ~isnan(a[i])]))
      n == Len(v)
  IN  IF n = 0 THEN NaN
      ELSE LET lo == ((n - 1) * q) \div 100
               hi == IF lo + 1 < n THEN lo + 1 ELSE n - 1
               t == Fin((n - 1) * q - 100 * lo, 100)
               diff == FSub(v[hi + 1], v[lo + 1])
           IN  IF FLt(t, Fin(1, 2))
               THEN FAdd(v[lo + 1], FMul(diff, t))
               ELSE FSub(v[hi + 1], FMul(diff, FSub(AsFloat(1), t)))

\* np.median of a non-empty array of finite values
median(a) ==
  LET v == Sorted(a)
      n == Len(v)
  IN  IF n % 2 = 1 THEN v[(n + 1) \div 2]
      ELSE FDiv(FAdd(v[n \div 2], v[n \div 2 + 1]), AsFloat(2))

----------------------------------------------------------------------------
(* Visualization: metrics.py lines 56-165 *)

\* Python's None where a float or a dict is expected
None == [k |-> "none", n |-> 0, d |-> 1]
NoLegend == [none |-> TRUE]

\* metrics.py lines 71-90: the if/elif chain has no else, so any other
\* index name falls off the end and the function returns None
create_legend_labels(index_name) ==
  CASE index_name = "NDVI" ->
         [none |-> FALSE, title |-> "Vegetation Vigor",
          labels |-> <<"Bare Soil/Rock", "Sparse Vegetation",
                       "Moderate Vegetation", "Dense Vegetation">>]
    [] index_name = "NDWI" ->
         [none |-> FALSE, title |-> "Water Content/Stress",
          labels |-> <<"Very Dry", "Dry", "Moderate",
                       "Wet/High Water Content">>]
    [] index_name = "PSRI" ->
         [none |-> FALSE, title |-> "Plant Senescence/Stress",
          labels |-> <<"Healthy/Young", "Slightly Stressed",
                       "Moderately Stressed", "Highly Stressed/Senescent">>]
    [] OTHER -> NoLegend

\* the colormap chosen at lines 99-112: a callable LinearSegmentedColormap
\* for the three named indices, the string 'viridis' otherwise
ColormapOf(index_name) ==
  IF index_name \in {"NDVI", "NDWI", "PSRI"}
  THEN [name |-> index_name, callable |-> TRUE]
  ELSE [name |-> "viridis", callable |-> FALSE]

\* the colour domain chosen at lines 99-114; vmin and vmax are None unless
\* the caller gave them
ColorDomain(index_array, index_name, vmin, vmax) ==
  LET lo == CASE index_name = "NDVI" -> Fin(-1, 5)
              [] index_name = "NDWI" -> Fin(-1, 2)
              [] index_name = "PSRI" -> Fin(-1, 10)
              [] OTHER -> nanpercentile(index_array, 2)
      hi == CASE index_name = "NDVI" -> Fin(4, 5)
              [] index_name = "NDWI" -> Fin(3, 10)
              [] index_name = "PSRI" -> Fin(1, 5)
              [] OTHER -> nanpercentile(index_array, 98)
  IN  [vmin |-> IF vmin = None THEN lo ELSE vmin,
       vmax |-> IF vmax = None THEN hi ELSE vmax]

\* metrics.py lines 92-165.  The result records what the call did: the
\* exception it raised, if any, or the figure it saved.  savefig_ok is
\* whether the file system lets plt.savefig write the image.
visualize_index(index_array, index_name, vmin, vmax, savefig_ok) ==
  LET dom == ColorDomain(index_array, index_name, vmin, vmax)
      cmap == ColormapOf(index_name)
      legend_info == create_legend_labels(index_name)
      failed(exc) == [ev |-> "visualize", name |-> index_name,
                      raised |-> exc, vmin |-> dom.vmin, vmax |-> dom.vmax,
                      data |-> index_array, title |-> <<>>, labels |-> <<>>]
  IN  IF legend_info.none
      THEN \* line 118: None["title"]
           failed("TypeError")
      ELSE IF ~cmap.callable
      THEN \* line 138: 'viridis'(normalized_val)
           failed("TypeError")
      ELSE IF ~savefig_ok
      THEN \* line 162
           failed("OSError")
      ELSE [ev |-> "visualize", name |-> index_name, raised |-> "",
            vmin |-> dom.vmin, vmax |-> dom.vmax, data |-> index_array,
            title |-> <<index_name, legend_info.title>>,
            labels |-> legend_info.labels]

----------------------------------------------------------------------------
(* Input domains *)

\* raw 16-bit sensor readings used as pixel values
RawVals == {0, 1, 3, SaturationValue - 1, SaturationValue}

\* thresholds passed to mask_saturated_pixels: the default and a small one
Thresholds == {SaturationValue, 3}

\* elements of a masked band: finite readings below saturation, or nan
MaskedVals == {AsFloat(0), AsFloat(1), AsFloat(3), NaN}

\* elements of an index array
IndexVals == {Fin(-1, 2), AsFloat(0), Fin(1, 3), AsFloat(2), NaN, PInf, NInf}

NoFile == [openable |-> FALSE, count |-> 0, npix |-> 0,
           has_nodata |-> FALSE, nodata |-> 0]

----------------------------------------------------------------------------
(* Direct calls of the index formulas on masked bands *)

InitFormulas ==
  /\ prog = "formulas"
  /\ pc = "call"
  /\ \E n \in 1..MaxPix :
       \E a \in ArraysOfLen(MaskedVals, n), b \in ArraysOfLen(MaskedVals, n),
          c \in ArraysOfLen(MaskedVals, n) :
         heap = <<a, b, c>>
  /\ loc = [fn |-> "", result |-> 0]
  /\ file = NoFile
  /\ handle = "none"
  /\ out = <<>>
  /\ written = <<>>
  /\ status = "running"

\* result = ndvi(nir, red) with nir, red the first two arrays
Call_ndvi ==
  /\ prog = "formulas" /\ pc = "call"
  /\ LET r == Alloc(heap, ndvi(heap[1], heap[2]))
     IN  /\ heap' = r.heap
         /\ loc' = [fn |-> "ndvi", result |-> r.ret]
  /\ pc' = "done"
  /\ status' = "returned"
  /\ UNCHANGED <<prog, file, handle, out, written>>

\* result = ndwi(green, nir) with green, nir the first two arrays
Call_ndwi ==
  /\ prog = "formulas" /\ pc = "call"
  /\ LET r == Alloc(heap, ndwi(heap[1], heap[2]))
     IN  /\ heap' = r.heap
         /\ loc' = [fn |-> "ndwi", result |-> r.ret]
  /\ pc' = "done"
  /\ status' = "returned"
  /\ UNCHANGED <<prog, file, handle, out, written>>

\* result = psri(red, green, blue) with the three arrays in that order
Call_psri ==
  /\ prog = "formulas" /\ pc = "call"
  /\ LET r == Alloc(heap, psri(heap[1], heap[2], heap[3]))
     IN  /\ heap' = r.heap
         /\ loc' = [fn |-> "psri", result |-> r.ret]
  /\ pc' = "done"
  /\ status' = "returned"
  /\ UNCHANGED <<prog, file, handle, out, written>>

NextFormulas == Call_ndvi \/ Call_ndwi \/ Call_psri

SpecFormulas == InitFormulas /\ [][NextFormulas]_vars

----------------------------------------------------------------------------
(* A direct call result = mask_saturated_pixels(array, saturation_value)   *)
(* on a raw band; array0 remembers the values the caller passed in.        *)

InitMask ==
  /\ prog = "mask"
  /\ pc = "call"
  /\ \E a \in ArraysOver(RawVals), t \in Thresholds :
       /\ heap = <<a>>
       /\ loc = [array |-> 1, array0 |-> a, saturation_value |-> t,
                 result |-> 0]
  /\ file = NoFile
  /\ handle = "none"
  /\ out = <<>>
  /\ written = <<>>
  /\ status = "running"

Call_mask_saturated_pixels ==
  /\ prog = "mask" /\ pc = "call"
  /\ LET r == mask_saturated_pixels(heap, loc.array, loc.saturation_value)
     IN  /\ heap' = r.heap
         /\ loc' = [loc EXCEPT !.result = r.ret]
  /\ pc' = "done"
  /\ status' = "returned"
  /\ UNCHANGED <<prog, file, handle, out, written>>

NextMask == Call_mask_saturated_pixels

SpecMask == InitMask /\ [][NextMask]_vars

----------------------------------------------------------------------------
(* A direct call result = stretch(x) on an index array; x0 remembers the   *)
(* values x held before the call.                                          *)

InitStretch ==
  /\ prog = "stretch"
  /\ pc = "call"
  /\ \E a \in ArraysOver(IndexVals) :
       /\ heap = <<a>>
       /\ loc = [x |-> 1, x0 |-> a, result |-> 0]
  /\ file = NoFile
  /\ handle = "none"
  /\ out = <<>>
  /\ written = <<>>
  /\ status = "running"

Call_stretch ==
  /\ prog = "stretch" /\ pc = "call"
  /\ LET r == stretch(heap, loc.x)
     IN  /\ heap' = r.heap
         /\ loc' = [loc EXCEPT !.result = r.ret]
  /\ pc' = "done"
  /\ status' = "returned"
  /\ UNCHANGED <<prog, file, handle, out, written>>

NextStretch == Call_stretch

SpecStretch == InitStretch /\ [][NextStretch]_vars

----------------------------------------------------------------------------
(* A direct call print_statistics(name, array) on an index array *)

InitStats ==
  /\ prog = "stats"
  /\ pc = "call"
  /\ \E a \in ArraysOver(IndexVals) : heap = <<a>>
  /\ loc = [array |-> 1]
  /\ file = NoFile
  /\ handle = "none"
  /\ out = <<>>
  /\ written = <<>>
  /\ status = "running"

Call_print_statistics ==
  /\ prog = "stats" /\ pc = "call"
  /\ out' = Append(out, print_statistics("NDVI", heap[loc.array]))
  /\ pc' = "done"
  /\ status' = "returned"
  /\ UNCHANGED <<prog, heap, loc, file, handle, written>>

NextStats == Call_print_statistics

SpecStats == InitStats /\ [][NextStats]_vars

----------------------------------------------------------------------------
(* A direct call visualize_index(index_array, index_name, path, vmin, vmax) *)
(* with a writable output path                                              *)

\* index kinds: the three named ones and one the code has no branch for
IndexNames == {"NDVI", "NDWI", "PSRI", "EVI"}

InitVisualize ==
  /\ prog = "visualize"
  /\ pc = "call"
  /\ \E n \in 1..MaxPix : \E a \in ArraysOfLen(IndexVals, n) : heap = <<a>>
  /\ \E name \in IndexNames, lo \in {None, AsFloat(-1)},
        hi \in {None, AsFloat(1)} :
       loc = [index_array |-> 1, index_name |-> name, vmin |-> lo,
              vmax |-> hi]
  /\ file = NoFile
  /\ handle = "none"
  /\ out = <<>>
  /\ written = <<>>
  /\ status = "running"

Call_visualize_index ==
  /\ prog = "visualize" /\ pc = "call"
  /\ LET r == visualize_index(heap[loc.index_array], loc.index_name,
                              loc.vmin, loc.vmax, TRUE)
     IN  /\ out' = Append(out, r)
         /\ status' = IF r.raised = "" THEN "returned" ELSE "raised"
  /\ pc' = "done"
  /\ UNCHANGED <<prog, heap, loc, file, handle, written>>

NextVisualize == Call_visualize_index

SpecVisualize == InitVisualize /\ [][NextVisualize]_vars

----------------------------------------------------------------------------
(* The index tool: metrics.py main(args), lines 179-293                    *)

\* defaults of --red, --nir, --green, --blue (1-based band numbers)
ArgRed == 3
ArgNir == 5
ArgGreen == 2
ArgBlue == 1

\* raw readings in the rasters the tool is run on
ToolRawVals == {0, 3}

\* the band each read step asks for, the local it binds, the next step
ReadSteps ==
  [read_red |-> [band |-> ArgRed, var |-> "red", next |-> "read_nir"],
   read_nir |-> [band |-> ArgNir, var |-> "nir", next |-> "read_green"],
   read_green |-> [band |-> ArgGreen, var |-> "green", next |-> "read_blue"],
   read_blue |-> [band |-> ArgBlue, var |-> "blue", next |-> "band_stats"]]

\* the array each write step writes, its file name, the next step
WriteSteps ==
  [write_ndvi |-> [var |-> "ndvi_stretched", path |-> "ndvi.tif",
                   next |-> "write_ndwi"],
   write_ndwi |-> [var |-> "ndwi_stretched", path |-> "ndwi.tif",
                   next |-> "write_psri"],
   write_psri |-> [var |-> "psri_stretched", path |-> "psri.tif",
                   next |-> "map_ndvi"]]

\* the array each visualize_index call renders, its kind, the next step
MapSteps ==
  [map_ndvi |-> [var |-> "ndvi_img", name |-> "NDVI", next |-> "map_ndwi"],
   map_ndwi |-> [var |-> "ndwi_img", name |-> "NDWI", next |-> "map_psri"],
   map_psri |-> [var |-> "psri_img", name |-> "PSRI", next |-> "combined"]]

\* an exception leaves main from a file opened without a with block: the
\* traceback and exit status 1, and nothing closes src
RaiseUnscoped(exc) ==
  /\ out' = Append(out, [ev |-> "traceback", exc |-> exc])
  /\ status' = "exit_1"
  /\ pc' = "exit"
  /\ UNCHANGED handle

\* an exception leaves the with block of line 180 (which closes src) and
\* then main, uncaught: the interpreter prints the traceback and exits 1
RaiseInWith(exc) ==
  /\ handle' = "closed"
  /\ out' = Append(out, [ev |-> "traceback", exc |-> exc])
  /\ status' = "exit_1"
  /\ pc' = "exit"

InitMetrics ==
  /\ prog = "metrics"
  /\ pc = "open"
  /\ heap = <<>>
  /\ \E st \in BOOLEAN :
       loc = [stretch |-> st, reads |-> 0, red |-> 0, nir |-> 0,
              green |-> 0, blue |-> 0, ndvi_img |-> 0, ndwi_img |-> 0,
              psri_img |-> 0, ndvi_stretched |-> 0, ndwi_stretched |-> 0,
              psri_stretched |-> 0]
  /\ \E o \in BOOLEAN, c \in 0..MaxBands, n \in 1..MaxPix :
       file = [openable |-> o, count |-> c, npix |-> n,
               has_nodata |-> FALSE, nodata |-> 0]
  /\ handle = "none"
  /\ out = <<>>
  /\ written = <<>>
  /\ status = "running"

\* line 180: rasterio.open(args.input), and the prints of lines 181-184
M_open ==
  /\ prog = "metrics" /\ pc = "open"
  /\ IF file.openable
     THEN /\ handle' = "open"
          /\ out' = Append(out, [ev |-> "processing", bands |-> file.count])
          /\ pc' = "read_red"
          /\ UNCHANGED status
     ELSE \* the exception leaves main before the with block is entered
          /\ out' = Append(out, [ev |-> "traceback",
                                 exc |-> "RasterioIOError"])
          /\ status' = "exit_1"
          /\ pc' = "exit"
          /\ UNCHANGED handle
  /\ UNCHANGED <<prog, heap, loc, file, written>>

\* lines 187-190, one band: mask_saturated_pixels(src.read(band)).  The
\* read raises for a band the file does not have, or on an I/O error.
M_read ==
  /\ prog = "metrics" /\ pc \in DOMAIN ReadSteps
  /\ handle = "open"
  /\ LET step == ReadSteps[pc]
     IN  \/ /\ step.band <= file.count
            /\ \E data \in ArraysOfLen(ToolRawVals, file.npix) :
                 LET raw == Alloc(heap, data)
                     m == mask_saturated_pixels(raw.heap, raw.ret,
                                                SaturationValue)
                 IN  /\ heap' = m.heap
                     /\ loc' = [loc EXCEPT ![step.var] = m.ret,
                                           !.reads = @ + 1]
            /\ pc' = step.next
            /\ UNCHANGED <<handle, out, status>>
         \/ /\ step.band > file.count
            /\ RaiseInWith("IndexError")
            /\ UNCHANGED <<heap, loc>>
         \/ /\ step.band <= file.count
            /\ RaiseInWith("RasterioIOError")
            /\ UNCHANGED <<heap, loc>>
  /\ UNCHANGED <<prog, file, written>>

\* np.nanmean over one band: the mean of its non-nan elements, nan (and a
\* warning) when there is none
nanmean(a) ==
  LET v == Select(a, [i \in 1..Len(a) |-> ~isnan(a[i])])
  IN  IF Len(v) = 0 THEN NaN ELSE ArrMean(v)

\* lines 193-198: the band statistics printed after masking
M_band_stats ==
  /\ prog = "metrics" /\ pc = "band_stats"
  /\ out' = Append(out, [ev |-> "band_statistics",
                         red |-> nanmean(heap[loc.red]),
                         nir |-> nanmean(heap[loc.nir]),
                         green |-> nanmean(heap[loc.green]),
                         blue |-> nanmean(heap[loc.blue])])
  /\ pc' = "calc"
  /\ UNCHANGED <<prog, heap, loc, file, handle, written, status>>

\* lines 201-205: the three index arrays
M_calc ==
  /\ prog = "metrics" /\ pc = "calc"
  /\ LET r1 == Alloc(heap, ndvi(heap[loc.nir], heap[loc.red]))
         r2 == Alloc(r1.heap, ndwi(heap[loc.green], heap[loc.nir]))
         r3 == Alloc(r2.heap,
                     psri(heap[loc.red], heap[loc.green], heap[loc.blue]))
     IN  /\ heap' = r3.heap
         /\ loc' = [loc EXCEPT !.ndvi_img = r1.ret, !.ndwi_img = r2.ret,
                               !.psri_img = r3.ret]
  /\ pc' = "report"
  /\ UNCHANGED <<prog, file, handle, out, written, status>>

\* lines 215-224, one index: mean and median of its finite values, if any
summary(name, img) ==
  LET valid == Select(img, [i \in 1..Len(img) |-> isfinite(img[i])])
  IN  IF Len(valid) > 0
      THEN <<[ev |-> "summary", name |-> name, mean |-> ArrMean(valid),
              median |-> median(valid)]>>
      ELSE <<>>

\* lines 208-225: index statistics and summary values
M_report ==
  /\ prog = "metrics" /\ pc = "report"
  /\ out' = out \o <<print_statistics("NDVI", heap[loc.ndvi_img]),
                     print_statistics("NDWI", heap[loc.ndwi_img]),
                     print_statistics("PSRI", heap[loc.psri_img])>>
              \o summary("NDVI", heap[loc.ndvi_img])
              \o summary("NDWI", heap[loc.ndwi_img])
              \o summary("PSRI", heap[loc.psri_img])
  /\ pc' = "stretch"
  /\ UNCHANGED <<prog, heap, loc, file, handle, written, status>>

\* lines 228-236: with --stretch each index array is copied and the copy
\* is stretched; without it the *_stretched names alias the index arrays
M_stretch ==
  /\ prog = "metrics" /\ pc = "stretch"
  /\ IF loc.stretch
     THEN LET c1 == ndarray_copy(heap, loc.ndvi_img)
              s1 == stretch(c1.heap, c1.ret)
              c2 == ndarray_copy(s1.heap, loc.ndwi_img)
              s2 == stretch(c2.heap, c2.ret)
              c3 == ndarray_copy(s2.heap, loc.psri_img)
              s3 == stretch(c3.heap, c3.ret)
          IN  /\ heap' = s3.heap
              /\ loc' = [loc EXCEPT !.ndvi_stretched = s1.ret,
                                    !.ndwi_stretched = s2.ret,
                                    !.psri_stretched = s3.ret]
              /\ out' = Append(out, [ev |-> "stretched"])
     ELSE /\ loc' = [loc EXCEPT !.ndvi_stretched = loc.ndvi_img,
                                !.ndwi_stretched = loc.ndwi_img,
                                !.psri_stretched = loc.psri_img]
          /\ UNCHANGED <<heap, out>>
  /\ pc' = "write_ndvi"
  /\ UNCHANGED <<prog, file, handle, written, status>>

\* lines 44-54: the raster write_index creates, a float32 copy of the
\* array with nan declared as the missing-value marker
write_index(index_array, dst_path) ==
  [path |-> dst_path, data |-> index_array, nodata |-> NaN, count |-> 1]

\* lines 240-242, one file: write_index(src, array, path); opening the
\* destination for writing can fail
M_write ==
  /\ prog = "metrics" /\ pc \in DOMAIN WriteSteps
  /\ handle = "open"
  /\ LET step == WriteSteps[pc]
     IN  \/ /\ written' = Append(written,
                                 write_index(heap[loc[step.var]], step.path))
            /\ pc' = step.next
            /\ UNCHANGED <<handle, out, status>>
         \/ /\ RaiseInWith("RasterioIOError")
            /\ UNCHANGED written
  /\ UNCHANGED <<prog, heap, loc, file>>

\* lines 248-252, one map: visualize_index(img, name, path); args.visualize
\* is always true (a store_true flag whose default is True)
M_visualize ==
  /\ prog = "metrics" /\ pc \in DOMAIN MapSteps
  /\ LET step == MapSteps[pc]
     IN  \E savefig_ok \in BOOLEAN :
           LET r == visualize_index(heap[loc[step.var]], step.name, None,
                                    None, savefig_ok)
           IN  IF r.raised = ""
               THEN /\ out' = Append(out, r)
                    /\ pc' = step.next
                    /\ UNCHANGED <<handle, status>>
               ELSE RaiseInWith(r.raised)
  /\ UNCHANGED <<prog, heap, loc, file, written>>

\* lines 254-279: the combined figure, then the end of the with block
\* (src is closed) and of main
M_combined ==
  /\ prog = "metrics" /\ pc = "combined"
  /\ \/ /\ out' = Append(out, [ev |-> "combined"])
        /\ handle' = "closed"
        /\ status' = "exit_0"
        /\ pc' = "exit"
     \/ RaiseInWith("OSError")
  /\ UNCHANGED <<prog, heap, loc, file, written>>

NextMetrics ==
  \/ M_open \/ M_read \/ M_band_stats \/ M_calc \/ M_report
  \/ M_stretch \/ M_write \/ M_visualize \/ M_combined

SpecMetrics == InitMetrics /\ [][NextMetrics]_vars

----------------------------------------------------------------------------
(* The band inspector: band_inspector.py, inspect_file and main            *)

\* the missing-value markers a file may declare
NodataVals == {0, 3}

\* raw readings in the files inspected (small, so that the squares of the
\* variance stay within TLC's integers)
InspectedVals == {0, 3, 4}

\* lines 66-71: band_mapping, in the order its items are visited
band_mapping ==
  <<[name |-> "Blue", band |-> 1], [name |-> "Green", band |-> 2],
    [name |-> "Red", band |-> 3], [name |-> "NIR", band |-> 5]>>

\* line 39: band_data[band_data != src.nodata] if src.nodata else band_data.
\* The condition is the truth value of src.nodata: None and 0 are false.
valid_data_of(band_data, f) ==
  IF f.has_nodata /\ f.nodata # 0
  THEN Select(band_data, [i \in 1..Len(band_data) |-> band_data[i] # f.nodata])
  ELSE band_data

\* an integer array as floats, for the reductions
Floats(a) == [i \in 1..Len(a) |-> AsFloat(a[i])]

\* how many elements of an integer array satisfy a test
CountGe(a, v) == Cardinality({i \in 1..Len(a) : a[i] >= v})
CountEq(a, v) == Cardinality({i \in 1..Len(a) : a[i] = v})

\* lines 44-57: the numbers of one band's statistics block
band_block(band_num, band_data, valid_data) ==
  [band |-> band_num,
   min |-> ArrMin(Floats(valid_data)),
   max |-> ArrMax(Floats(valid_data)),
   mean |-> ArrMean(Floats(valid_data)),
   var |-> ArrVar(Floats(valid_data)),
   saturated |-> CountGe(band_data, SaturationValue),
   zeros |-> CountEq(band_data, 0)]

NoBlock == [band |-> 0]

InitInspector ==
  /\ prog = "inspector"
  /\ pc = "open"
  /\ heap = <<>>
  /\ loc = [band_num |-> 0, idx |-> 0, reads |-> 0, block |-> NoBlock]
  /\ \E o \in BOOLEAN, c \in 0..MaxBands, n \in 1..MaxPix :
       \/ file = [openable |-> o, count |-> c, npix |-> n,
                  has_nodata |-> FALSE, nodata |-> 0]
       \/ \E v \in NodataVals :
            file = [openable |-> o, count |-> c, npix |-> n,
                    has_nodata |-> TRUE, nodata |-> v]
  /\ handle = "none"
  /\ out = <<>>
  /\ written = <<>>
  /\ status = "running"

\* lines 13-32: the heading, rasterio.open, the file information and the
\* band descriptions; lines 90-91 when the open raises
I_open ==
  /\ prog = "inspector" /\ pc = "open"
  /\ IF file.openable
     THEN /\ handle' = "open"
          /\ out' = out \o <<[ev |-> "inspecting"],
                             [ev |-> "file_info", bands |-> file.count]>>
          /\ loc' = [loc EXCEPT !.band_num = 1]
          /\ pc' = "band_loop"
     ELSE /\ out' = out \o <<[ev |-> "inspecting"], [ev |-> "open_error"]>>
          /\ pc' = "return"
          /\ UNCHANGED <<handle, loc>>
  /\ UNCHANGED <<prog, heap, file, written, status>>

\* an except clause for one band that reports the error and gives up the
\* rest of the inspection, as the outer handler of lines 90-91 does
band_failure_aborts(printed, band_num) ==
  /\ out' = Append(printed, [ev |-> "band_error", band |-> band_num])
  /\ handle' = "closed"
  /\ pc' = "return"

\* lines 60-62: the except clause of one band, entered with `printed` on
\* the output: one error line, and the loop goes on with the next band
band_failure(printed, band_num) ==
  /\ out' = Append(printed, [ev |-> "band_error", band |-> band_num])
  /\ pc' = "band_loop"
  /\ UNCHANGED handle

\* lines 36-62, one iteration of the band loop
I_band ==
  /\ prog = "inspector" /\ pc = "band_loop"
  /\ loc.band_num <= file.count
  /\ handle = "open"
  /\ \/ \* line 38: src.read raises
        /\ band_failure(out, loc.band_num)
        /\ loc' = [loc EXCEPT !.band_num = @ + 1]
        /\ UNCHANGED heap
     \/ \E band_data \in ArraysOfLen(InspectedVals, file.npix) :
          LET valid_data == valid_data_of(band_data, file)
              header == [ev |-> "band_header", band |-> loc.band_num]
          IN  /\ heap' = <<band_data, valid_data>>
              /\ IF Len(valid_data) = 0
                 THEN \* line 44: min() of an empty selection raises
                      \* ValueError after lines 41-43 were printed
                      /\ band_failure(Append(out, header), loc.band_num)
                      /\ loc' = [loc EXCEPT !.band_num = @ + 1,
                                            !.reads = @ + 1]
                 ELSE /\ out' = out \o
                           <<header, [ev |-> "band_stats",
                                      band |-> loc.band_num]>>
                      /\ loc' = [loc EXCEPT
                           !.band_num = @ + 1, !.reads = @ + 1,
                           !.block = band_block(loc.band_num, band_data,
                                                valid_data)]
                      /\ pc' = "band_loop"
                      /\ UNCHANGED handle
  /\ UNCHANGED <<prog, file, written, status>>

\* line 36: the band loop is exhausted; band_data, valid_data and the
\* numbers of the last block are not used again
I_bands_done ==
  /\ prog = "inspector" /\ pc = "band_loop"
  /\ loc.band_num > file.count
  /\ heap' = <<>>
  /\ loc' = [loc EXCEPT !.idx = 1, !.block = NoBlock]
  /\ pc' = "access_test"
  /\ UNCHANGED <<prog, file, handle, out, written, status>>

\* lines 73-81, one item of band_mapping
I_access ==
  /\ prog = "inspector" /\ pc = "access_test"
  /\ loc.idx <= Len(band_mapping)
  /\ handle = "open"
  /\ LET band_num == band_mapping[loc.idx].band
     IN  \/ /\ band_num <= file.count
            /\ out' = Append(out, [ev |-> "access_ok", band |-> band_num])
            /\ loc' = [loc EXCEPT !.idx = @ + 1, !.reads = @ + 1]
         \/ /\ band_num <= file.count
            /\ out' = Append(out, [ev |-> "access_error", band |-> band_num])
            /\ loc' = [loc EXCEPT !.idx = @ + 1]
         \/ /\ band_num > file.count
            /\ out' = Append(out, [ev |-> "access_exceeds",
                                   band |-> band_num])
            /\ loc' = [loc EXCEPT !.idx = @ + 1]
  /\ UNCHANGED <<prog, pc, heap, file, handle, written, status>>

\* lines 83-88: the metadata tags, then the end of the with block
I_metadata ==
  /\ prog = "inspector" /\ pc = "access_test"
  /\ loc.idx > Len(band_mapping)
  /\ handle = "open"
  /\ out' = Append(out, [ev |-> "metadata"])
  /\ handle' = "closed"
  /\ pc' = "return"
  /\ UNCHANGED <<prog, heap, loc, file, written, status>>

\* lines 93-101: inspect_file returns to main, main returns, and the
\* interpreter exits with status 0
I_return ==
  /\ prog = "inspector" /\ pc = "return"
  /\ status' = "exit_0"
  /\ pc' = "exit"
  /\ UNCHANGED <<prog, heap, loc, file, handle, out, written>>

NextInspector ==
  I_open \/ I_band \/ I_bands_done \/ I_access \/ I_metadata \/ I_return

SpecInspector == InitInspector /\ [][NextInspector]_vars

----------------------------------------------------------------------------
(* Everything together *)

Init ==
  \/ InitFormulas \/ InitMask \/ InitStretch \/ InitStats \/ InitVisualize
  \/ InitMetrics \/ InitInspector

Next ==
  \/ NextFormulas \/ NextMask \/ NextStretch \/ NextStats \/ NextVisualize
  \/ NextMetrics \/ NextInspector

Spec == Init /\ [][Next]_vars

\* stretch called directly and by the index tool
SpecStretchCallers ==
  (InitStretch \/ InitMetrics) /\ [][NextStretch \/ NextMetrics]_vars

\* the two command-line tools
SpecTools ==
  (InitMetrics \/ InitInspector) /\ [][NextMetrics \/ NextInspector]_vars

\* The two tools run to their end on one-pixel rasters: each is one
\* sequential process whose every step (a read, a computation, a write, a
\* print) returns or raises.  The pixel count changes no branch a tool
\* takes (a band of one pixel can already be all marker, the one way the
\* data decide a branch), so the paths are those of SpecTools.  The last
\* conjunct is weak fairness of the tools' steps, WF_vars(NextMetrics \/
\* NextInspector), written out with the condition under which no step is
\* enabled: the tool has exited.
InitOnePixel == (InitMetrics \/ InitInspector) /\ file.npix = 1

SpecToolsOnePixel == InitOnePixel /\ [][NextMetrics \/ NextInspector]_vars

SpecToolsFair ==
  /\ SpecToolsOnePixel
  /\ \/ []<>(pc = "exit")
     \/ []<><<NextMetrics \/ NextInspector>>_vars

----------------------------------------------------------------------------
(* Properties *)

\* the value n/d as a float equals x
IsRatio(x, n, d) == isfinite(x) /\ x.n * d = n * x.d

\* the finite elements of an array, as a set, and their least and greatest
FiniteOf(a) == {a[i] : i \in {j \in 1..Len(a) : isfinite(a[j])}}
Least(S) == CHOOSE v \in S : \A w \in S : v.n * w.d <= w.n * v.d
Greatest(S) == CHOOSE v \in S : \A w \in S : w.n * v.d <= v.n * w.d

\* C1: for finite band values, wherever a formula's denominator is zero
\* (nir+red, green+nir, blue) the result is nan whatever the numerator,
\* and the call raises nothing.
C1_ZeroDenominatorIsMissing ==
  (prog = "formulas" /\ pc = "done") =>
    /\ status = "returned"
    /\ \A i \in 1..Len(heap[1]) :
         LET a == heap[1][i]
             b == heap[2][i]
             c == heap[3][i]
             r == heap[loc.result][i]
         IN  /\ (loc.fn \in {"ndvi", "ndwi"} /\ isfinite(a) /\ isfinite(b)
                 /\ a.n * b.d + b.n * a.d = 0) => isnan(r)
             /\ (loc.fn = "psri" /\ isfinite(a) /\ isfinite(b) /\ isfinite(c)
                 /\ c.n = 0) => isnan(r)

\* C2: each output pixel of NDVI, NDWI, PSRI is a function of the input
\* pixels at the same position: with finite operands and a non-zero
\* denominator it is (nir-red)/(nir+red), (green-nir)/(green+nir),
\* (red-green)/blue; with any operand missing it is missing.
C2_PixelwiseFormula ==
  (prog = "formulas" /\ pc = "done") =>
    /\ Len(heap[loc.result]) = Len(heap[1])
    /\ \A i \in 1..Len(heap[1]) :
         LET a == heap[1][i]
             b == heap[2][i]
             c == heap[3][i]
             r == heap[loc.result][i]
         IN  /\ (loc.fn \in {"ndvi", "ndwi"} /\ isfinite(a) /\ isfinite(b)
                 /\ a.n * b.d + b.n * a.d # 0)
                  => IsRatio(r, a.n * b.d - b.n * a.d, a.n * b.d + b.n * a.d)
             /\ (loc.fn \in {"ndvi", "ndwi"} /\ (isnan(a) \/ isnan(b)))
                  => isnan(r)
             /\ (loc.fn = "psri" /\ isfinite(a) /\ isfinite(b) /\ isfinite(c)
                 /\ c.n # 0)
                  => IsRatio(r, (a.n * b.d - b.n * a.d) * c.d,
                             a.d * b.d * c.n)
             /\ (loc.fn = "psri" /\ (isnan(a) \/ isnan(b) \/ isnan(c)))
                  => isnan(r)

\* C2 witness: a two-pixel NDVI whose first pixel is the ratio 1/2 of
\* finite operands and whose second pixel has a missing operand.
C2_Witness ==
  /\ prog = "formulas" /\ pc = "done" /\ loc.fn = "ndvi"
  /\ Len(heap[1]) = 2
  /\ heap[1][1] = AsFloat(3) /\ heap[2][1] = AsFloat(1)
  /\ heap[loc.result][1] = Fin(1, 2)
  /\ isnan(heap[2][2]) /\ isfinite(heap[1][2])
  /\ isnan(heap[loc.result][2])

\* C3: mask_saturated_pixels returns an array of the same shape in which
\* every element >= the threshold is missing and every other element has
\* its input value, and the caller's array is not modified.
C3_MaskContract ==
  (prog = "mask" /\ pc = "done") =>
    LET res == heap[loc.result]
        arg == loc.array0
    IN  /\ Len(res) = Len(arg)
        /\ \A i \in 1..Len(arg) :
             IF arg[i] >= loc.saturation_value
             THEN isnan(res[i])
             ELSE IsRatio(res[i], arg[i], 1)
        /\ heap[loc.array] = arg

\* C3 witness: a call with the default threshold on an array holding a
\* saturated reading and an unsaturated one.
C3_Witness ==
  /\ prog = "mask" /\ pc = "done"
  /\ loc.saturation_value = SaturationValue
  /\ Len(loc.array0) >= 2
  /\ loc.array0[1] = SaturationValue /\ isnan(heap[loc.result][1])
  /\ loc.array0[2] = SaturationValue - 1
  /\ heap[loc.result][2] = AsFloat(SaturationValue - 1)

\* res is x with its finite values rescaled to [0,1]: unchanged when x has
\* no finite value or only one; otherwise every finite element e is
\* (e-a)/(b-a) for the least a and greatest b, within [0,1], a going to 0
\* and b to 1, and every other element is as in x
IsStretchOf(res, x) ==
  LET F == FiniteOf(x)
  IN  /\ Len(res) = Len(x)
      /\ IF F = {} \/ Least(F) = Greatest(F)
         THEN res = x
         ELSE LET a == Least(F)
                  b == Greatest(F)
              IN  \A i \in 1..Len(x) :
                    IF isfinite(x[i])
                    THEN /\ IsRatio(res[i],
                              (x[i].n * a.d - a.n * x[i].d) * b.d * a.d,
                              (b.n * a.d - a.n * b.d) * x[i].d * a.d)
                         /\ 0 <= res[i].n /\ res[i].n <= res[i].d
                         /\ (x[i] = a => res[i] = AsFloat(0))
                         /\ (x[i] = b => res[i] = AsFloat(1))
                    ELSE res[i] = x[i]

\* C4: stretch with a, b the least and greatest finite value: with no
\* finite value, or a = b, the result equals the input; otherwise every
\* finite x becomes (x-a)/(b-a), within [0,1], the least going to 0 and the
\* greatest to 1, and every missing element stays missing.
C4_StretchContract ==
  (prog = "stretch" /\ pc = "done") => IsStretchOf(heap[loc.result], loc.x0)

\* C4 witness: a stretched array with two different finite values and a
\* missing element.
C4_Witness ==
  /\ prog = "stretch" /\ pc = "done"
  /\ Len(loc.x0) = 3
  /\ loc.x0[1] = Fin(-1, 2) /\ loc.x0[2] = NaN /\ loc.x0[3] = AsFloat(2)
  /\ heap[loc.result] = <<AsFloat(0), NaN, AsFloat(1)>>

\* C6: print_statistics aggregates over exactly the finite elements: the
\* count, the least and the greatest of them, and
\* valid_pct = valid_count / total_count * 100; with no finite element it
\* reports the no-valid-pixels state and raises nothing.
C6_StatisticsOverFinite ==
  (prog = "stats" /\ pc = "done") =>
    LET a == heap[loc.array]
        I == {i \in 1..Len(a) : isfinite(a[i])}
        rep == out[1]
    IN  /\ status = "returned"
        /\ Len(out) = 1
        /\ rep.novalid = (I = {})
        /\ I # {} =>
             /\ rep.count = Cardinality(I)
             /\ rep.min = Least(FiniteOf(a))
             /\ rep.max = Greatest(FiniteOf(a))
             /\ IsRatio(rep.pct, 100 * Cardinality(I), Len(a))

\* C6 witness: statistics of an array holding a missing element, an
\* infinity and one finite value.
C6_Witness ==
  /\ prog = "stats" /\ pc = "done"
  /\ \E i, j, k \in 1..Len(heap[1]) :
       isnan(heap[1][i]) /\ heap[1][j] = NInf /\ heap[1][k] = Fin(1, 3)
  /\ ~out[1].novalid /\ out[1].count = 1 /\ out[1].min = Fin(1, 3)

\* C10: visualize_index handles every index kind: without vmin/vmax from
\* the caller the colour domain is [-0.2, 0.8] for NDVI, [-0.5, 0.3] for
\* NDWI, [-0.1, 0.2] for PSRI and the 2nd/98th percentile of the values
\* for any other kind, and for every kind the call completes with a title
\* and a legend of 4 buckets.
C10_RendererHandlesEveryKind ==
  (prog = "visualize" /\ pc = "done") =>
    LET r == out[1]
        a == heap[loc.index_array]
    IN  /\ status = "returned"
        /\ r.raised = ""
        /\ Len(r.title) = 2
        /\ Len(r.labels) = 4
        /\ loc.vmin = None =>
             r.vmin = CASE loc.index_name = "NDVI" -> Fin(-2, 10)
                        [] loc.index_name = "NDWI" -> Fin(-5, 10)
                        [] loc.index_name = "PSRI" -> Fin(-1, 10)
                        [] OTHER -> nanpercentile(a, 2)
        /\ loc.vmax = None =>
             r.vmax = CASE loc.index_name = "NDVI" -> Fin(8, 10)
                        [] loc.index_name = "NDWI" -> Fin(3, 10)
                        [] loc.index_name = "PSRI" -> Fin(2, 10)
                        [] OTHER -> nanpercentile(a, 98)

\* the index array the tool computed for a kind, recomputed from the
\* masked bands it still holds
Unstretched(name) ==
  CASE name = "NDVI" -> ndvi(heap[loc.nir], heap[loc.red])
    [] name = "NDWI" -> ndwi(heap[loc.green], heap[loc.nir])
    [] name = "PSRI" -> psri(heap[loc.red], heap[loc.green], heap[loc.blue])

KindOfPath(path) ==
  CASE path = "ndvi.tif" -> "NDVI"
    [] path = "ndwi.tif" -> "NDWI"
    [] path = "psri.tif" -> "PSRI"

\* in a run with --stretch the index arrays, and the arrays handed to
\* visualize_index, hold the unstretched values, and the rasters written
\* hold the stretched ones
PipelineStretchesCopies ==
  (prog = "metrics" /\ loc.stretch) =>
    /\ loc.psri_img # 0 =>
         /\ heap[loc.ndvi_img] = Unstretched("NDVI")
         /\ heap[loc.ndwi_img] = Unstretched("NDWI")
         /\ heap[loc.psri_img] = Unstretched("PSRI")
    /\ \A i \in 1..Len(out) :
         out[i].ev = "visualize" => out[i].data = Unstretched(out[i].name)
    /\ \A j \in 1..Len(written) :
         IsStretchOf(written[j].data, Unstretched(KindOfPath(written[j].path)))

RECURSIVE SumAt(_, _)
SumAt(a, I) ==
  IF I = {} THEN 0
  ELSE LET i == CHOOSE j \in I : TRUE IN a[i] + SumAt(a, I \ {i})

\* C7: for every band the inspector reports min, max, mean and std over
\* exactly the pixel values not equal to the file's declared missing-value
\* marker, whatever the marker (0 included), and over all pixels when no
\* marker is declared.  (std through its square, the variance.)
C7_StatsExcludeDeclaredMarker ==
  (prog = "inspector" /\ loc.block.band > 0) =>
    LET data == heap[1]
        keep == {i \in 1..Len(data) :
                   ~file.has_nodata \/ data[i] # file.nodata}
        vals == {AsFloat(data[i]) : i \in keep}
        n == Cardinality(keep)
        sum == SumAt(data, keep)
        sumsq == SumAt([i \in 1..Len(data) |-> data[i] * data[i]], keep)
    IN  /\ keep # {}
        /\ loc.block.min = Least(vals)
        /\ loc.block.max = Greatest(vals)
        /\ IsRatio(loc.block.mean, sum, n)
        /\ IsRatio(loc.block.var, n * sumsq - sum * sum, n * n)

\* what an open failure may leave on the output
IsOpenFailureOutput(e) == e.ev \in {"inspecting", "open_error", "traceback"}

\* C8: both tools end with a non-zero exit status when the input raster
\* cannot be opened, and after the open failure no band is read and no
\* output is produced for the file.
C8_OpenFailureExitsNonZero ==
  (prog \in {"metrics", "inspector"} /\ ~file.openable) =>
    /\ loc.reads = 0
    /\ written = <<>>
    /\ \A i \in 1..Len(out) : IsOpenFailureOutput(out[i])
    /\ pc = "exit" => status = "exit_1"

\* the outcome of a band in the inspector's output
IsBandOutcome(e) == e.ev \in {"band_stats", "band_error"}
IsAccessLine(e) == e.ev \in {"access_ok", "access_error", "access_exceeds"}

\* C9: in the inspector a failure on one band never aborts the inspection:
\* the bands 1..N are visited in increasing order, each leaves exactly one
\* outcome, its statistics block or one error line, and the access test of
\* the expected bands and the metadata listing follow whatever failed.
C9_BandFailureDoesNotAbort ==
  (prog = "inspector" /\ file.openable) =>
    LET oc == SelectSeq(out, IsBandOutcome)
        ac == SelectSeq(out, IsAccessLine)
    IN  /\ \A k \in 1..Len(oc) : oc[k].band = k
        /\ pc = "band_loop" => Len(oc) = loc.band_num - 1
        /\ pc \in {"access_test", "return", "exit"} => Len(oc) = file.count
        /\ pc \in {"return", "exit"} =>
             /\ Len(ac) = Len(band_mapping)
             /\ \A k \in 1..Len(ac) : ac[k].band = band_mapping[k].band
             /\ out[Len(out)].ev = "metadata"
        /\ pc # "exit" => ENABLED NextInspector

\* C9 witness: a finished inspection of a file with at least three bands
\* in which band 1 failed to read, band 2 got its statistics block and
\* band 3 failed in the analysis.
C9_Witness ==
  /\ prog = "inspector" /\ pc = "exit" /\ file.count >= 3
  /\ LET oc == SelectSeq(out, IsBandOutcome)
     IN  /\ Len(oc) >= 3
         /\ oc[1].ev = "band_error"
         /\ oc[2].ev = "band_stats"
         /\ oc[3].ev = "band_error"
  /\ \E i \in 1..Len(out) : out[i].ev = "band_header" /\ out[i].band = 3
  /\ Len(out) > 0 /\ out[Len(out)].ev = "metadata"

\* the statement the tool is about to run uses src: a band read (metrics.py
\* 187-190) or a write_index call, which takes the profile of src (240-242),
\* in the index tool; the band loop, the access test and the metadata
\* tags in the inspector (band_inspector.py 36-38, 73-76, 87)
UsesHandle ==
  \/ prog = "metrics" /\ pc \in (DOMAIN ReadSteps \cup DOMAIN WriteSteps)
  \/ prog = "inspector" /\ pc \in {"band_loop", "access_test"}

\* C11: in both tools the raster file handle, once opened, is always
\* released before the invocation ends, on every path (a band read, a
\* raster write or a visualization step failing after the open included),
\* and it is never used after being closed: wherever the tool is about to
\* use the handle it is open, a closed handle stays closed, the tool ends,
\* and at its end the handle is not open.
C11_HandleAlwaysReleased ==
  /\ [](UsesHandle => handle = "open")
  /\ [][handle = "closed" => handle' = "closed"]_vars
  /\ [](pc = "exit" => handle # "open")
  /\ (handle = "open") ~> (pc = "exit" /\ handle = "closed")

\* C11 witness: the index tool ended by a failure after all three rasters
\* were written (a visualization step or the combined figure raised), with
\* the handle closed.
C11_Witness ==
  /\ prog = "metrics" /\ pc = "exit" /\ status = "exit_1"
  /\ Len(written) = 3
  /\ Len(out) > 0 /\ out[Len(out)].ev = "traceback"
  /\ handle = "closed"

====
